---- MODULE Spec2Model ----
(***************************************************************************)
(* Model of the local RAG tools of src/main.py: the process-wide global    *)
(* vector_store, the rebuild operation index_notes and the read operation  *)
(* query_notes, called concurrently by the tool-dispatch layer.             *)
(*                                                                         *)
(* Every caller is a thread with a program counter.  A step of a thread is *)
(* a stretch of the handler with at most one access to the global.         *)
(***************************************************************************)
EXTENDS Integers, Sequences, FiniteSets, TLC

\* Number of concurrent callers of the two tools.
NumThreads == 2

\* query_notes asks the store for k=3 neighbours.
K == 3

\* query_notes shows page_content[:500].
SnippetLen == 500

Threads == 1..NumThreads

VARIABLES
    vector_store,    \* the module global: None or the published FAISS store
    pc,              \* per thread: position in index_notes / query_notes
    arg,             \* per thread: directory_path or query
    docs,            \* per thread: local docs of index_notes
    new_store,       \* per thread: value of FAISS.from_documents(...) before it is stored
    results,         \* per thread: local results of query_notes
    ret,             \* per thread: what the call gave back to its caller
    last_published   \* history: directory of the last rebuild that stored the global

vars == <<vector_store, pc, arg, docs, new_store, results, ret, last_published>>

----------------------------------------------------------------------------
\* Values

None == [kind |-> "None"]
NoArg == "-"
NoRet == [kind |-> "none"]

Min(a, b) == IF a < b THEN a ELSE b

\* A text is kept as a sequence of runs of one character: Rep("a", 2000) is
\* the string of 2000 times "a", and s \o t is concatenation.  Two texts
\* are the same string when StrLen and every CharAt agree.
Rep(c, n) == IF n > 0 THEN <<[c |-> c, n |-> n]>> ELSE <<>>

\* len(text)
RECURSIVE StrLen(_)
StrLen(text) == IF text = <<>> THEN 0 ELSE Head(text).n + StrLen(Tail(text))

\* text[i - 1], for i in 1..len(text)
RECURSIVE CharAt(_, _)
CharAt(text, i) ==
    IF i <= Head(text).n THEN Head(text).c ELSE CharAt(Tail(text), i - Head(text).n)

----------------------------------------------------------------------------
\* The file system the tools read (an environment, fixed during a run)

Dirs == {"D0", "D1", "D2", "D3"}

\* Queries the callers send; "" is the empty text.
Queries == {"", "x"}

\* os.path.exists(directory_path)
PathExists(d) == d # "D0"

\* A path is <<directory, file name>>.
\* Files matching **/*.md under d, in the loader's order
MdFiles(d) == IF d = "D1" THEN <<<<"D1", "a.md">>, <<"D1", "b.md">>>> ELSE <<>>

\* Files matching **/*.txt under d, in the loader's order
TxtFiles(d) ==
    CASE d = "D1" -> <<<<"D1", "n.txt">>>>
      [] d = "D2" -> <<<<"D2", "c.txt">>>>
      [] OTHER -> <<>>

\* The text of each file
FileText(f) ==
    CASE f = <<"D1", "a.md">>  -> Rep("a", 1) \o Rep(" ", 1) \o Rep("\n", 2) \o Rep("b", 1)
      [] f = <<"D1", "b.md">>  -> Rep("a", 2000)
      [] f = <<"D1", "n.txt">> -> Rep("n", 1)
      [] f = <<"D2", "c.txt">> -> Rep("c", 499) \o Rep("\n", 1) \o Rep("c", 1)
      [] OTHER -> <<>>

\* TextLoader(...).load(): one Document per file, metadata.source = path
TextLoader(f) == [page_content |-> FileText(f), metadata |-> [source |-> f]]

\* DirectoryLoader(directory_path, glob=..., loader_cls=TextLoader).load()
DirectoryLoaderLoad(files) == [i \in 1..Len(files) |-> TextLoader(files[i])]

\* docs after the two loads of index_notes: the .md files, or the .txt
\* files when there is no .md file
LoadDocs(d) ==
    LET md == DirectoryLoaderLoad(MdFiles(d))
    IN  IF md = <<>> THEN DirectoryLoaderLoad(TxtFiles(d)) ELSE md

----------------------------------------------------------------------------
\* The vector store library, at its interface

\* FAISS.from_documents(docs, embeddings): a new store holding exactly docs
FAISS_from_documents(ds) == [kind |-> "FAISS", docs |-> ds]

\* The injective index sequences of length k over 1..n
Rankings(n, k) ==
    {s \in [1..k -> 1..n] : \A i, j \in 1..k : i # j => s[i] # s[j]}

\* store.similarity_search(query, k): min(k, n) distinct entries of the
\* store, in the order the embedding distances give (any order here)
similarity_search(store, k) ==
    LET n == Len(store.docs)
        m == Min(k, n)
    IN  {[i \in 1..m |-> store.docs[s[i]]] : s \in Rankings(n, m)}

----------------------------------------------------------------------------
\* Formatting done by query_notes

\* doc.metadata.get('source', 'Unknown')
MetadataGet(md, key, default) ==
    IF key \in DOMAIN md THEN md[key] ELSE default

\* text[:n], for n >= 0
RECURSIVE Slice(_, _)
Slice(text, n) ==
    IF n <= 0 \/ text = <<>> THEN <<>>
    ELSE IF Head(text).n <= n
         THEN <<Head(text)>> \o Slice(Tail(text), n - Head(text).n)
         ELSE <<[c |-> Head(text).c, n |-> n]>>

\* text.replace('\n', ' ')
ReplaceNewlines(text) ==
    [i \in 1..Len(text) |->
        [c |-> IF text[i].c = "\n" THEN " " ELSE text[i].c, n |-> text[i].n]]

\* A variant that forgets the slice: doc.page_content.replace('\n', ' ')
ContentNoSlice(doc) == ReplaceNewlines(doc.page_content)

\* content = doc.page_content[:500].replace('\n', ' ')
Content(doc) == ReplaceNewlines(Slice(doc.page_content, SnippetLen))

\* f"--- Source: {source} ---\n{content}...\n\n"
FormatBlock(doc) ==
    [source  |-> MetadataGet(doc.metadata, "source", "Unknown"),
     content |-> Content(doc),
     tail    |-> "..."]

\* output = f"Results for '{query}':\n\n" followed by one block per result
FormatOutput(query, rs) ==
    [kind   |-> "results",
     query  |-> query,
     blocks |-> [i \in 1..Len(rs) |-> FormatBlock(rs[i])]]

----------------------------------------------------------------------------
\* Positions

IndexPcs == {"i_start", "i_load", "i_embed", "i_build",
             "i_publish", "i_return"}
QueryPcs == {"q_check", "q_search", "q_format"}
EndPcs   == {"done", "raised"}

Init ==
    /\ vector_store = None
    /\ pc = [t \in Threads |-> "idle"]
    /\ arg = [t \in Threads |-> NoArg]
    /\ docs = [t \in Threads |-> <<>>]
    /\ new_store = [t \in Threads |-> None]
    /\ results = [t \in Threads |-> <<>>]
    /\ ret = [t \in Threads |-> NoRet]
    /\ last_published = NoArg

\* The frame of the call is gone: its locals no longer exist
DropFrame(t) ==
    /\ arg' = [arg EXCEPT ![t] = NoArg]
    /\ docs' = [docs EXCEPT ![t] = <<>>]
    /\ new_store' = [new_store EXCEPT ![t] = None]
    /\ results' = [results EXCEPT ![t] = <<>>]

\* Leave the handler with a returned string
Finish(t, r) ==
    /\ pc' = [pc EXCEPT ![t] = "done"]
    /\ ret' = [ret EXCEPT ![t] = r]
    /\ DropFrame(t)

\* Leave the handler with an exception that nothing in it catches
Raise(t, e) ==
    /\ pc' = [pc EXCEPT ![t] = "raised"]
    /\ ret' = [ret EXCEPT ![t] = [kind |-> "exception", cause |-> e]]
    /\ DropFrame(t)

\* Go on inside the handler
Goto(t, p) ==
    /\ pc' = [pc EXCEPT ![t] = p]
    /\ ret' = ret

----------------------------------------------------------------------------
\* index_notes

\* The dispatch layer calls index_notes(directory_path)
CallIndexNotes(t) ==
    /\ pc[t] = "idle"
    /\ \E d \in Dirs : arg' = [arg EXCEPT ![t] = d]
    /\ Goto(t, "i_start")
    /\ UNCHANGED <<vector_store, docs, new_store, results, last_published>>

\* The function-level imports, before the try block: an ImportError leaves
\* the function as an exception.  Then, inside the try block:
\* if not os.path.exists(directory_path): return "Directory not found: ..."
IndexStart(t) ==
    /\ pc[t] = "i_start"
    /\ \/ Raise(t, "ImportError")
       \/ IF ~PathExists(arg[t])
          THEN Finish(t, [kind |-> "dir_not_found", dir |-> arg[t]])
          ELSE /\ Goto(t, "i_load")
               /\ UNCHANGED <<arg, docs, new_store, results>>
    /\ UNCHANGED <<vector_store, last_published>>

\* A variant that drops the old store before loading the new documents
IndexLoadReset(t) ==
    /\ pc[t] = "i_load"
    /\ vector_store' = None
    /\ \/ IF LoadDocs(arg[t]) = <<>>
          THEN Finish(t, [kind |-> "no_files"])
          ELSE /\ Goto(t, "i_embed")
               /\ docs' = [docs EXCEPT ![t] = LoadDocs(arg[t])]
               /\ UNCHANGED <<arg, new_store, results>>
       \/ Finish(t, [kind |-> "index_failed", cause |-> "read"])
    /\ UNCHANGED <<last_published>>

\* Load **/*.md, fall back to **/*.txt when that gave nothing, give up when
\* both gave nothing; a read error is caught by the except clause
IndexLoad(t) ==
    /\ pc[t] = "i_load"
    /\ \/ IF LoadDocs(arg[t]) = <<>>
          THEN Finish(t, [kind |-> "no_files"])
          ELSE /\ Goto(t, "i_embed")
               /\ docs' = [docs EXCEPT ![t] = LoadDocs(arg[t])]
               /\ UNCHANGED <<arg, new_store, results>>
       \/ Finish(t, [kind |-> "index_failed", cause |-> "read"])
    /\ UNCHANGED <<vector_store, last_published>>

\* A variant whose failure path clears the global
IndexEmbedReset(t) ==
    /\ pc[t] = "i_embed"
    /\ \/ /\ Goto(t, "i_build")
          /\ UNCHANGED <<vector_store, arg, docs, new_store, results>>
       \/ /\ Finish(t, [kind |-> "index_failed", cause |-> "embeddings"])
          /\ vector_store' = None
    /\ UNCHANGED <<last_published>>

\* embeddings = HuggingFaceEmbeddings(model_name="all-MiniLM-L6-v2")
IndexEmbed(t) ==
    /\ pc[t] = "i_embed"
    /\ \/ /\ Goto(t, "i_build")
          /\ UNCHANGED <<arg, docs, new_store, results>>
       \/ Finish(t, [kind |-> "index_failed", cause |-> "embeddings"])
    /\ UNCHANGED <<vector_store, last_published>>

\* A variant that fills the global store document by document: the global
\* holds the first document while the rest is still being embedded
IndexBuildInPlace(t) ==
    /\ pc[t] = "i_build"
    /\ \/ /\ new_store' = [new_store EXCEPT ![t] = FAISS_from_documents(docs[t])]
          /\ vector_store' = FAISS_from_documents(<<Head(docs[t])>>)
          /\ Goto(t, "i_publish")
          /\ UNCHANGED <<arg, docs, results>>
       \/ /\ Finish(t, [kind |-> "index_failed", cause |-> "build"])
          /\ vector_store' = vector_store
    /\ UNCHANGED <<last_published>>

\* The right-hand side FAISS.from_documents(docs, embeddings): the new store
\* is built as a fresh object, the global is not touched
IndexBuild(t) ==
    /\ pc[t] = "i_build"
    /\ \/ /\ new_store' = [new_store EXCEPT ![t] = FAISS_from_documents(docs[t])]
          /\ Goto(t, "i_publish")
          /\ UNCHANGED <<arg, docs, results>>
       \/ Finish(t, [kind |-> "index_failed", cause |-> "build"])
    /\ UNCHANGED <<vector_store, last_published>>

\* A variant that adds the new documents to the store already published
IndexPublishMerge(t) ==
    /\ pc[t] = "i_publish"
    /\ vector_store' = IF vector_store = None THEN new_store[t]
                       ELSE FAISS_from_documents(vector_store.docs \o new_store[t].docs)
    /\ last_published' = arg[t]
    /\ Goto(t, "i_return")
    /\ UNCHANGED <<arg, docs, new_store, results>>

\* vector_store = <the new store>: one store to the global
IndexPublish(t) ==
    /\ pc[t] = "i_publish"
    /\ vector_store' = new_store[t]
    /\ last_published' = arg[t]
    /\ Goto(t, "i_return")
    /\ UNCHANGED <<arg, docs, new_store, results>>

\* return f"Successfully indexed {len(docs)} documents from {directory_path}."
IndexReturn(t) ==
    /\ pc[t] = "i_return"
    /\ Finish(t, [kind |-> "indexed", count |-> Len(docs[t]), dir |-> arg[t]])
    /\ UNCHANGED <<vector_store, last_published>>

----------------------------------------------------------------------------
\* query_notes

\* The dispatch layer calls query_notes(query)
CallQueryNotes(t) ==
    /\ pc[t] = "idle"
    /\ \E q \in Queries : arg' = [arg EXCEPT ![t] = q]
    /\ Goto(t, "q_check")
    /\ UNCHANGED <<vector_store, docs, new_store, results, last_published>>

\* A variant without the None guard
QueryCheckNoGuard(t) ==
    /\ pc[t] = "q_check"
    /\ Goto(t, "q_search")
    /\ UNCHANGED <<vector_store, arg, docs, new_store, results, last_published>>

\* if vector_store is None: return "No notes indexed yet. ..."
QueryCheck(t) ==
    /\ pc[t] = "q_check"
    /\ IF vector_store = None
       THEN Finish(t, [kind |-> "not_indexed"])
       ELSE /\ Goto(t, "q_search")
            /\ UNCHANGED <<arg, docs, new_store, results>>
    /\ UNCHANGED <<vector_store, last_published>>

\* A variant that takes a lock the rebuild holds from start to end
QuerySearchLocked(t) ==
    /\ pc[t] = "q_search"
    /\ \A u \in Threads : pc[u] \notin IndexPcs
    /\ \/ /\ vector_store # None
          /\ \E rs \in similarity_search(vector_store, K) :
                results' = [results EXCEPT ![t] = rs]
          /\ Goto(t, "q_format")
          /\ UNCHANGED <<arg, docs, new_store>>
       \/ Finish(t, [kind |-> "query_failed",
                     cause |-> IF vector_store = None THEN "attribute" ELSE "search"])
    /\ UNCHANGED <<vector_store, last_published>>

\* results = vector_store.similarity_search(query, k=3): reads the global
\* again and searches the store it finds; any exception (an attribute
\* error on None included) is caught by the except clause
QuerySearch(t) ==
    /\ pc[t] = "q_search"
    /\ \/ /\ vector_store # None
          /\ \E rs \in similarity_search(vector_store, K) :
                results' = [results EXCEPT ![t] = rs]
          /\ Goto(t, "q_format")
          /\ UNCHANGED <<arg, docs, new_store>>
       \/ Finish(t, [kind |-> "query_failed",
                     cause |-> IF vector_store = None THEN "attribute" ELSE "search"])
    /\ UNCHANGED <<vector_store, last_published>>

\* Build the output string from results and return it
QueryFormat(t) ==
    /\ pc[t] = "q_format"
    /\ Finish(t, FormatOutput(arg[t], results[t]))
    /\ UNCHANGED <<vector_store, last_published>>

----------------------------------------------------------------------------
\* The caller takes the outcome; the thread is free for the next call
Return(t) ==
    /\ pc[t] \in EndPcs
    /\ pc' = [pc EXCEPT ![t] = "idle"]
    /\ ret' = [ret EXCEPT ![t] = NoRet]
    /\ UNCHANGED <<vector_store, arg, docs, new_store, results, last_published>>

IndexStep(t) ==
    \/ IndexStart(t)
    \/ IndexLoad(t)
    \/ IndexEmbed(t)
    \/ IndexBuild(t)
    \/ IndexPublish(t)
    \/ IndexReturn(t)

QueryStep(t) ==
    \/ QueryCheck(t)
    \/ QuerySearch(t)
    \/ QueryFormat(t)

Next ==
    \E t \in Threads :
        \/ CallIndexNotes(t)
        \/ CallQueryNotes(t)
        \/ IndexStep(t)
        \/ QueryStep(t)
        \/ Return(t)

Spec == Init /\ [][Next]_vars

\* Fairness: a thread inside query_notes keeps running; nothing is assumed
\* of the rebuilds, which may stall for ever
FairSpec == Spec /\ \A t \in Threads : WF_vars(QueryStep(t))

----------------------------------------------------------------------------
\* Properties

Range(f) == {f[i] : i \in DOMAIN f}

\* The store index_notes(d) builds when it succeeds
IndexOf(d) == FAISS_from_documents(LoadDocs(d))

FailureKinds == {"dir_not_found", "no_files", "index_failed"}

RebuildsInProgress == {t \in Threads : pc[t] \in IndexPcs}

\* C1 - Atomic publish: every search of a query runs on one complete index,
\* the one the last finished publication stored: all its results are
\* documents of that one directory, and there are as many of them as the
\* complete index of that directory gives.
C1_AtomicPublish ==
    [][\A t \in Threads :
          (pc[t] = "q_search" /\ pc'[t] = "q_format") =>
              /\ last_published \in Dirs
              /\ Range(results'[t]) \subseteq Range(LoadDocs(last_published))
              /\ Len(results'[t]) = Min(K, Len(LoadDocs(last_published)))]_vars

\* A query holds its results while a rebuild of another directory is about
\* to publish
C1_Witness ==
    \E t, u \in Threads :
        /\ pc[t] = "q_format"
        /\ Len(results[t]) = 2
        /\ pc[u] = "i_publish"
        /\ arg[u] # last_published

\* C2 - A failed rebuild never changes the published index: the only step of
\* index_notes that changes the global is the one store before the success
\* return, after that store the call can only return success, and every
\* other end of the call inside the try block is a returned failure message.
C2_FailedRebuildKeepsIndex ==
    [][\A t \in Threads :
          (pc[t] \in IndexPcs /\ pc'[t] # pc[t]) =>
              /\ vector_store' # vector_store => pc'[t] = "i_return"
              /\ pc[t] = "i_return" => (pc'[t] = "done" /\ ret'[t].kind = "indexed")
              /\ (pc'[t] \in EndPcs /\ ret'[t].kind # "indexed") =>
                     /\ vector_store' = vector_store
                     /\ pc'[t] = "done" => ret'[t].kind \in FailureKinds
                     /\ pc'[t] = "raised" => pc[t] = "i_start"]_vars

\* Rebuilds have failed in each of the ways while an index is published
C2_Witness ==
    /\ vector_store = IndexOf("D1")
    /\ \E t, u \in Threads :
          /\ pc[t] = "done" /\ ret[t].kind = "index_failed"
          /\ pc[u] = "done" /\ ret[u].kind \in {"dir_not_found", "no_files"}

\* C3 - Empty-state guard: as long as no rebuild has published, a query that
\* takes its step returns the not-indexed message, and no query is at or
\* past the search.
C3_EmptyStateGuard ==
    [][\A t \in Threads :
          last_published = NoArg =>
              /\ pc[t] \notin {"q_search", "q_format"}
              /\ (pc[t] = "q_check" /\ pc'[t] # pc[t]) =>
                     (pc'[t] = "done" /\ ret'[t].kind = "not_indexed")]_vars

\* A query got the not-indexed message after a rebuild failed
C3_Witness ==
    /\ last_published = NoArg
    /\ \E t, u \in Threads :
          /\ pc[t] = "done" /\ ret[t].kind = "not_indexed"
          /\ pc[u] = "done" /\ ret[u].kind \in FailureKinds

\* C4 - Rebuild replaces, not merges: the published index is absent before
\* the first successful rebuild and is afterwards exactly the index of the
\* directory of the last successful rebuild, with no document of another
\* directory.
C4_ReplaceNotMerge ==
    IF last_published = NoArg
    THEN vector_store = None
    ELSE /\ vector_store # None
         /\ vector_store.docs = LoadDocs(last_published)
         /\ \A i \in 1..Len(vector_store.docs) :
               vector_store.docs[i].metadata.source[1] = last_published

\* D1 was indexed with success, then D2
C4_Witness ==
    /\ last_published = "D2"
    /\ vector_store = IndexOf("D2")
    /\ \E t \in Threads :
          pc[t] = "done" /\ ret[t].kind = "indexed" /\ ret[t].dir = "D1"

\* C5 - Every failure of index_notes and query_notes is returned to the
\* caller: no call ends in an exception.
C5_NoUnhandledException ==
    \A t \in Threads : pc[t] # "raised"

\* C6 - Concurrent rebuilds are rejected: at most one rebuild is in progress.
C6_AtMostOneRebuild ==
    Cardinality(RebuildsInProgress) <= 1

\* The lifecycle state of the index, read off the global and the callers
IndexState ==
    IF RebuildsInProgress # {} THEN "Building"
    ELSE IF vector_store = None THEN "Empty" ELSE "Ready"

\* C7 - Lifecycle: the state moves only Empty -> Building, Building -> Ready,
\* Ready -> Building and Building -> Empty; Building -> Empty happens only
\* when no index was published; a published index never becomes absent; the
\* state is Empty only when no rebuild ever published and Ready only when
\* one did.
C7_Lifecycle ==
    [][/\ \/ IndexState' = IndexState
          \/ <<IndexState, IndexState'>> \in
                {<<"Empty", "Building">>, <<"Building", "Ready">>,
                 <<"Ready", "Building">>, <<"Building", "Empty">>}
       /\ (IndexState = "Building" /\ IndexState' = "Empty") =>
              (vector_store = None /\ last_published = NoArg)
       /\ vector_store # None => vector_store' # None
       /\ IndexState' = "Empty" => last_published' = NoArg
       /\ IndexState' = "Ready" => last_published' \in Dirs]_vars

\* Back in Ready on the old index after a rebuild that failed
C7_Witness ==
    /\ IndexState = "Ready"
    /\ \E t \in Threads : pc[t] = "done" /\ ret[t].kind = "index_failed"

\* C8 - Invalid queries are rejected before touching the store: a query with
\* empty text never gets to the search.
C8_EmptyQueryNeverSearches ==
    \A t \in Threads :
        /\ pc[t] = "q_format" => arg[t] # ""
        /\ (pc[t] = "done" /\ ret[t].kind = "results") => ret[t].query # ""

\* The i-th block shows the source and the first min(len, 500) characters of
\* the i-th result, each character passed through tr; "..." follows when
\* the text is longer than that
BlocksShow(rs, blocks, tr(_)) ==
    /\ Len(blocks) = Len(rs)
    /\ \A i \in 1..Len(blocks) :
          LET text == rs[i].page_content
              shown == blocks[i].content
          IN  /\ blocks[i].source = rs[i].metadata.source
              /\ StrLen(shown) = Min(StrLen(text), SnippetLen)
              /\ \A j \in 1..StrLen(shown) : CharAt(shown, j) = tr(CharAt(text, j))
              /\ StrLen(text) > SnippetLen => blocks[i].tail = "..."

NewlineToSpace(c) == IF c = "\n" THEN " " ELSE c

SameChar(c) == c

\* C9 - Snippet truncation: every entry of the output shows the first
\* min(len(text), 500) characters of its chunk, with each newline shown as
\* a space, followed by the ellipsis when the text was longer; the entries
\* are in the order of the ranked results.
C9_SnippetTruncation ==
    [][\A t \in Threads :
          (pc[t] = "q_format" /\ pc'[t] = "done") =>
              /\ ret'[t].kind = "results"
              /\ BlocksShow(results[t], ret'[t].blocks, NewlineToSpace)]_vars

\* C9 as stated: the snippet is the first characters of the text unchanged
C9_SnippetVerbatim ==
    [][\A t \in Threads :
          (pc[t] = "q_format" /\ pc'[t] = "done") =>
              /\ ret'[t].kind = "results"
              /\ BlocksShow(results[t], ret'[t].blocks, SameChar)]_vars

\* An output with two entries, the second of the text of 2000 characters cut
\* to 500, the first of a text with newlines
C9_Witness ==
    \E t \in Threads :
        /\ pc[t] = "done" /\ ret[t].kind = "results"
        /\ Len(ret[t].blocks) = 2
        /\ ret[t].blocks[1].source = <<"D1", "a.md">>
        /\ ret[t].blocks[2].source = <<"D1", "b.md">>
        /\ ret[t].blocks[2].content = Rep("a", 500)

\* C10 - Queries are not blocked by rebuilds: every call of query_notes
\* ends whatever the rebuilds do, also when they never move again (only the
\* query's own steps are fair); with an index published, the call goes on
\* from its check to the search; and a rebuild in progress can always take
\* its next step, whatever the queries do.
C10_NotBlocked ==
    /\ \A t \in Threads : []<>(pc[t] \notin QueryPcs)
    /\ [][\A t \in Threads :
             (pc[t] = "q_check" /\ vector_store # None /\ pc'[t] # pc[t]) =>
                 pc'[t] = "q_search"]_vars
    /\ [](\A t \in Threads : pc[t] \in IndexPcs => ENABLED IndexStep(t))

\* A query returned results while a rebuild was loading, embedding or building
C10_Witness ==
    \E t, u \in Threads :
        /\ pc[t] = "done" /\ ret[t].kind = "results"
        /\ pc[u] \in {"i_load", "i_embed", "i_build"}

====
